---- MODULE Spec2Model ----
(***************************************************************************)
(* tree_gen.py: the exclusion ruleset (TreeGenerator._should_exclude) and  *)
(* the tree renderer (TreeGenerator.generate_tree / _build_tree), and the  *)
(* command-line entry point main().                                        *)
(*                                                                         *)
(* A Python string is a sequence of one-character strings, so that `in`,   *)
(* endswith, replace, lower, Path.suffix and the comparison of strings are *)
(* computed character by character.  The box-drawing characters of the     *)
(* connectors are written by code point ("U+2514" is the corner).          *)
(* A path is the sequence of its components.                               *)
(***************************************************************************)
EXTENDS Integers, Sequences, FiniteSets, TLC

(***************************************************************************)
(* Bounds of the checked instance.                                         *)
(***************************************************************************)
\* entries below the root in a generated directory snapshot
MaxEntries == 3
\* nesting of a generated directory snapshot below the root
MaxFsDepth == 3
\* largest max_depth option tried (0 and -1 are tried as well)
MaxDepthOpt == 2

(***************************************************************************)
(* Python values.                                                          *)
(***************************************************************************)
None == [some |-> FALSE]
Some(v) == [some |-> TRUE, v |-> v]

Range(s) == {s[i] : i \in DOMAIN s}

\* the empty str
EmptyStr == << >>

(***************************************************************************)
(* DEFAULT_CONFIG and the lists of main, and the characters of the names.   *)
(***************************************************************************)
\* DEFAULT_CONFIG['exclude_dirs'], each string a sequence of characters
DEFAULT_exclude_dirs ==
  <<
    <<"n","o","d","e","_","m","o","d","u","l","e","s">>,  \* node_modules
    <<"v","e","n","d","o","r">>,  \* vendor
    <<"d","i","s","t">>,  \* dist
    <<"b","u","i","l","d">>,  \* build
    <<".","e","x","p","o">>,  \* .expo
    <<"a","n","d","r","o","i","d","/","a","p","p","/","b","u","i","l","d">>,  \* android/app/build
    <<"a","n","d","r","o","i","d","/",".","g","r","a","d","l","e">>,  \* android/.gradle
    <<"a","n","d","r","o","i","d","/",".","k","o","t","l","i","n">>,  \* android/.kotlin
    <<"a","n","d","r","o","i","d","/","a","p","p","/",".","c","x","x">>,  \* android/app/.cxx
    <<"i","o","s","/","b","u","i","l","d">>,  \* ios/build
    <<"i","o","s","/","P","o","d","s">>,  \* ios/Pods
    <<"_","_","p","y","c","a","c","h","e","_","_">>,  \* __pycache__
    <<".","p","y","t","e","s","t","_","c","a","c","h","e">>,  \* .pytest_cache
    <<".","m","y","p","y","_","c","a","c","h","e">>,  \* .mypy_cache
    <<".","n","e","x","t">>,  \* .next
    <<"c","o","v","e","r","a","g","e">>,  \* coverage
    <<"t","e","m","p","-","a","p","k">>,  \* temp-apk
    <<".","g","i","t">>,  \* .git
    <<".","v","s","c","o","d","e">>,  \* .vscode
    <<".","i","d","e","a">>,  \* .idea
    <<".","D","S","_","S","t","o","r","e">>,  \* .DS_Store
    <<"v","e","n","v">>,  \* venv
    <<"e","n","v">>,  \* env
    <<".","g","r","a","d","l","e">>,  \* .gradle
    <<".","c","x","x">>,  \* .cxx
    <<"b","u","i","l","d">>,  \* build
    <<".","e","x","p","o","-","s","h","a","r","e","d">>,  \* .expo-shared
    <<"w","e","b","-","b","u","i","l","d">>  \* web-build
  >>

\* DEFAULT_CONFIG['exclude_files']
DEFAULT_exclude_files ==
  <<
    <<".","D","S","_","S","t","o","r","e">>,  \* .DS_Store
    <<"T","h","u","m","b","s",".","d","b">>,  \* Thumbs.db
    <<"d","e","s","k","t","o","p",".","i","n","i">>,  \* desktop.ini
    <<"p","a","c","k","a","g","e","-","l","o","c","k",".","j","s","o","n">>,  \* package-lock.json
    <<"y","a","r","n",".","l","o","c","k">>,  \* yarn.lock
    <<"p","n","p","m","-","l","o","c","k",".","y","a","m","l">>,  \* pnpm-lock.yaml
    <<".","e","n","v">>,  \* .env
    <<".","e","n","v",".","l","o","c","a","l">>,  \* .env.local
    <<".","e","n","v",".","p","r","o","d","u","c","t","i","o","n">>,  \* .env.production
    <<"g","o","o","g","l","e","-","s","e","r","v","i","c","e","s",".","j","s","o","n">>,  \* google-services.json
    <<"G","o","o","g","l","e","S","e","r","v","i","c","e","-","I","n","f","o",".","p","l","i","s","t">>,  \* GoogleService-Info.plist
    <<".","g","i","t","i","g","n","o","r","e">>,  \* .gitignore
    <<".","e","s","l","i","n","t","c","a","c","h","e">>,  \* .eslintcache
    <<"d","e","b","u","g",".","k","e","y","s","t","o","r","e">>,  \* debug.keystore
    <<"g","r","a","d","l","e","-","w","r","a","p","p","e","r",".","j","a","r">>,  \* gradle-wrapper.jar
    <<"g","r","a","d","l","e","w">>,  \* gradlew
    <<"g","r","a","d","l","e","w",".","b","a","t">>  \* gradlew.bat
  >>

\* DEFAULT_CONFIG['exclude_patterns']
DEFAULT_exclude_patterns ==
  <<
    <<".","p","y","c">>,  \* .pyc
    <<".","p","y","o">>,  \* .pyo
    <<".","c","l","a","s","s">>,  \* .class
    <<".","o">>,  \* .o
    <<".","l","o","g">>,  \* .log
    <<".","z","i","p">>,  \* .zip
    <<".","t","a","r">>,  \* .tar
    <<".","g","z">>,  \* .gz
    <<".","a","p","k">>,  \* .apk
    <<".","i","p","a">>,  \* .ipa
    <<".","a","a","b">>,  \* .aab
    <<".","b","i","n">>,  \* .bin
    <<".","l","o","c","k">>,  \* .lock
    <<".","p","r","o","b","e">>,  \* .probe
    <<".","s","o">>,  \* .so
    <<".","d","e","x">>  \* .dex
  >>

\* DEFAULT_CONFIG['exclude_path_patterns']
DEFAULT_exclude_path_patterns ==
  <<
    <<"a","n","d","r","o","i","d","/","a","p","p","/",".","c","x","x">>,  \* android/app/.cxx
    <<"a","n","d","r","o","i","d","/",".","g","r","a","d","l","e">>,  \* android/.gradle
    <<"a","n","d","r","o","i","d","/","a","p","p","/","b","u","i","l","d">>,  \* android/app/build
    <<".","e","x","p","o","/","w","e","b","/","c","a","c","h","e">>,  \* .expo/web/cache
    <<"a","n","d","r","o","i","d","/","g","r","a","d","l","e","/","w","r","a","p","p","e","r">>  \* android/gradle/wrapper
  >>

\* main: image_extensions
image_extensions ==
  <<
    <<".","p","n","g">>,  \* .png
    <<".","j","p","g">>,  \* .jpg
    <<".","j","p","e","g">>,  \* .jpeg
    <<".","g","i","f">>,  \* .gif
    <<".","w","e","b","p">>,  \* .webp
    <<".","s","v","g">>,  \* .svg
    <<".","i","c","o">>  \* .ico
  >>

\* main: the --minimal allow-list
minimal_extensions ==
  <<
    <<".","t","s">>,  \* .ts
    <<".","t","s","x">>,  \* .tsx
    <<".","j","s">>,  \* .js
    <<".","j","s","x">>,  \* .jsx
    <<".","j","s","o","n">>,  \* .json
    <<".","m","d">>  \* .md
  >>

N_src == <<"s","r","c">>

N_index_ts == <<"i","n","d","e","x",".","t","s">>

N_node_modules == <<"n","o","d","e","_","m","o","d","u","l","e","s">>

N_pkg == <<"p","k","g">>

N_index_js == <<"i","n","d","e","x",".","j","s">>

N_README_md == <<"R","E","A","D","M","E",".","m","d">>

N_env == <<".","e","n","v">>

N_proj == <<"p","r","o","j">>

\* ord(c) of the characters entry names are made of
CodePoint ==
  ("." :> 46) @@ ("A" :> 65) @@ ("B" :> 66) @@ ("D" :> 68) @@ ("E" :> 69) @@
  ("M" :> 77) @@ ("R" :> 82) @@ ("_" :> 95) @@ ("a" :> 97) @@ ("b" :> 98) @@
  ("c" :> 99) @@ ("d" :> 100) @@ ("e" :> 101) @@ ("g" :> 103) @@ ("i" :>
  105) @@ ("j" :> 106) @@ ("k" :> 107) @@ ("l" :> 108) @@ ("m" :> 109) @@
  ("n" :> 110) @@ ("o" :> 111) @@ ("p" :> 112) @@ ("r" :> 114) @@ ("s" :>
  115) @@ ("t" :> 116) @@ ("u" :> 117) @@ ("v" :> 118) @@ ("x" :> 120)

(***************************************************************************)
(* str operations used by the program.                                     *)
(***************************************************************************)
\* pattern in s
Contains(pattern, s) ==
  \E i \in 0..(Len(s) - Len(pattern)) : SubSeq(s, i + 1, i + Len(pattern)) = pattern

\* s.endswith(pattern)
EndsWith(s, pattern) ==
  /\ Len(pattern) <= Len(s)
  /\ SubSeq(s, Len(s) - Len(pattern) + 1, Len(s)) = pattern

\* s.replace('\\', '/')
ReplaceBackslash(s) == [i \in DOMAIN s |-> IF s[i] = "\\" THEN "/" ELSE s[i]]

\* c.lower() of one character
LowerChar(c) ==
  IF c \in DOMAIN CodePoint /\ CodePoint[c] >= 65 /\ CodePoint[c] <= 90
  THEN CHOOSE d \in DOMAIN CodePoint : CodePoint[d] = CodePoint[c] + 32
  ELSE c

\* s.lower()
Lower(s) == [i \in DOMAIN s |-> LowerChar(s[i])]

\* s < t, the comparison of two str by code points
StrLess(s, t) ==
  \E i \in 1..(Len(t)) :
    /\ i <= Len(s) + 1
    /\ \A j \in 1..(i - 1) : s[j] = t[j]
    /\ \/ i = Len(s) + 1
       \/ CodePoint[s[i]] < CodePoint[t[i]]

\* sep.join(parts)
RECURSIVE Join(_, _)
Join(parts, sep) ==
  IF parts = << >> THEN EmptyStr
  ELSE IF Len(parts) = 1 THEN parts[1]
  ELSE parts[1] \o <<sep>> \o Join(Tail(parts), sep)

\* "\n".join(lines)
RECURSIVE JoinLines(_)
JoinLines(lines) ==
  IF lines = << >> THEN EmptyStr
  ELSE IF Len(lines) = 1 THEN lines[1]
  ELSE lines[1] \o <<"\n">> \o JoinLines(Tail(lines))

(***************************************************************************)
(* pathlib.                                                                *)
(***************************************************************************)
\* path.name: the final component
Name(path) == path[Len(path)]

\* path.suffix: name[i:] for i = name.rfind('.') when 0 < i < len(name) - 1
PathSuffix(path) ==
  LET name == Name(path)
      dots == {i \in DOMAIN name : name[i] = "."}
  IN  IF dots = {} THEN EmptyStr
      ELSE LET i == CHOOSE k \in dots : \A m \in dots : m <= k
           IN  IF 1 < i /\ i < Len(name) THEN SubSeq(name, i, Len(name))
               ELSE EmptyStr

\* whether root is an ancestor of path (or path itself)
IsRelativeTo(path, root) ==
  /\ Len(root) <= Len(path)
  /\ SubSeq(path, 1, Len(root)) = root

\* path.relative_to(root): the components of path below root
RelativeTo(path, root) == SubSeq(path, Len(root) + 1, Len(path))

\* str(relative_path), with the platform's separator
PathStr(parts, sep) == IF parts = << >> THEN <<".">> ELSE Join(parts, sep)

(***************************************************************************)
(* The directory snapshot.  fsys maps each path below the root, given      *)
(* relative to the root, to "dir" or "file"; the root itself is a          *)
(* directory.  Paths handed to the program are absolute.                   *)
(***************************************************************************)
\* Path(directory).resolve() of the directory that exists
RootPath == <<N_proj>>

\* a directory that is no ancestor of any entry of the snapshot
OtherRoot == <<N_src>>

\* path.is_dir()
IsDir(fsys, path) ==
  \/ path = RootPath
  \/ /\ IsRelativeTo(path, RootPath)
     /\ RelativeTo(path, RootPath) \in DOMAIN fsys
     /\ fsys[RelativeTo(path, RootPath)] = "dir"

\* the entries path.iterdir() yields, as a set
Children(fsys, path) ==
  {RootPath \o q : q \in {r \in DOMAIN fsys : RootPath \o SubSeq(r, 1, Len(r) - 1) = path}}

\* the directories of the snapshot, the root included
Directories(fsys) == {RootPath} \cup {RootPath \o q : q \in {r \in DOMAIN fsys : fsys[r] = "dir"}}

(***************************************************************************)
(* TreeGenerator.__init__: {**DEFAULT_CONFIG, **config}                    *)
(***************************************************************************)
DEFAULT_CONFIG ==
  [exclude_dirs |-> DEFAULT_exclude_dirs,
   exclude_files |-> DEFAULT_exclude_files,
   exclude_patterns |-> DEFAULT_exclude_patterns,
   include_extensions |-> None,
   max_depth |-> None,
   exclude_path_patterns |-> DEFAULT_exclude_path_patterns]

TreeGeneratorInit(config) ==
  LET merged == [k \in DOMAIN DEFAULT_CONFIG |->
                   IF k \in DOMAIN config THEN config[k] ELSE DEFAULT_CONFIG[k]]
  IN  [exclude_dirs |-> Range(merged.exclude_dirs),
       exclude_files |-> Range(merged.exclude_files),
       exclude_patterns |-> merged.exclude_patterns,
       exclude_path_patterns |-> merged.exclude_path_patterns,
       include_extensions |-> merged.include_extensions,
       max_depth |-> merged.max_depth]

\* bool(x) of an option that is None or a list
TruthyList(x) == x.some /\ x.v # << >>

\* bool(x) of an option that is None or an int
TruthyInt(x) == x.some /\ x.v # 0

(***************************************************************************)
(* The exclusion ruleset.                                                  *)
(***************************************************************************)
\* (variant) the relative path matched as the platform writes it, separators
\* not normalised
should_exclude_by_path_raw(self, path, root, sep) ==
  IF IsRelativeTo(path, root)
  THEN \E i \in DOMAIN self.exclude_path_patterns :
         Contains(self.exclude_path_patterns[i], PathStr(RelativeTo(path, root), sep))
  ELSE FALSE

\* _should_exclude_by_path: ValueError of relative_to is caught and passed
should_exclude_by_path(self, path, root, sep) ==
  IF IsRelativeTo(path, root)
  THEN LET relative_path == RelativeTo(path, root)
           path_str == ReplaceBackslash(PathStr(relative_path, sep))
       IN  \E i \in DOMAIN self.exclude_path_patterns :
             Contains(self.exclude_path_patterns[i], path_str)
  ELSE FALSE

\* the rules for a file: exact name, name suffix, extension allow-list
file_rules(self, path) ==
  IF Name(path) \in self.exclude_files THEN TRUE
  ELSE IF \E i \in DOMAIN self.exclude_patterns :
            EndsWith(Name(path), self.exclude_patterns[i]) THEN TRUE
  ELSE IF TruthyList(self.include_extensions)
       THEN PathSuffix(path) \notin Range(self.include_extensions.v)
  ELSE FALSE

\* (variant) directories are taken through the file rules as well
should_exclude_dirs_as_files(self, fsys, path, root, sep) ==
  IF root.some /\ should_exclude_by_path(self, path, root.v, sep) THEN TRUE
  ELSE IF IsDir(fsys, path) /\ Name(path) \in self.exclude_dirs THEN TRUE
  ELSE file_rules(self, path)

\* (variant) the directory-name rule applied to the children of the root only
should_exclude_top_dirs_only(self, fsys, path, root, sep) ==
  IF root.some /\ should_exclude_by_path(self, path, root.v, sep) THEN TRUE
  ELSE IF IsDir(fsys, path)
       THEN Len(path) = Len(RootPath) + 1 /\ Name(path) \in self.exclude_dirs
  ELSE file_rules(self, path)

\* _should_exclude; root is None or Some(path)
should_exclude(self, fsys, path, root, sep) ==
  IF root.some /\ should_exclude_by_path(self, path, root.v, sep) THEN TRUE
  ELSE IF IsDir(fsys, path) THEN Name(path) \in self.exclude_dirs
  ELSE file_rules(self, path)

(***************************************************************************)
(* The tree renderer.                                                      *)
(***************************************************************************)
\* (variant) the key without lower()
SortKeyCaseSensitive(fsys, p) == [not_dir |-> ~IsDir(fsys, p), lower |-> Name(p)]

\* key=lambda p: (not p.is_dir(), p.name.lower()), and the order of the keys
SortKey(fsys, p) == [not_dir |-> ~IsDir(fsys, p), lower |-> Lower(Name(p))]

KeyLess(k1, k2) ==
  \/ ~k1.not_dir /\ k2.not_dir
  \/ k1.not_dir = k2.not_dir /\ StrLess(k1.lower, k2.lower)

\* (variant) the listing left as the file system gave it
Unsorted(fsys, items) == items

\* sorted(items, key=...): stable, equal keys keep the order of the listing
RECURSIVE Sorted(_, _)
Sorted(fsys, items) ==
  IF items = << >> THEN << >>
  ELSE LET rest == Sorted(fsys, SubSeq(items, 1, Len(items) - 1))
           x == items[Len(items)]
           n == Cardinality({i \in DOMAIN rest :
                               ~KeyLess(SortKey(fsys, x), SortKey(fsys, rest[i]))})
       IN  SubSeq(rest, 1, n) \o <<x>> \o SubSeq(rest, n + 1, Len(rest))

\* [item for item in contents if not self._should_exclude(item, root)]
Filtered(self, fsys, items, root, sep) ==
  SelectSeq(items, LAMBDA item : ~should_exclude(self, fsys, item, Some(root), sep))

BranchConnector == <<"U+251C", "U+2500", "U+2500", " ">>
CornerConnector == <<"U+2514", "U+2500", "U+2500", " ">>
BranchContinuation == <<"U+2502", " ", " ", " ">>
BlankContinuation == <<" ", " ", " ", " ">>

\* item.name + "/" if item.is_dir() else item.name
DisplayName(fsys, item) == IF IsDir(fsys, item) THEN Name(item) \o <<"/">> ELSE Name(item)

\* whether _build_tree returns at once: the depth limit
DepthLimitReached(self, depth) == TruthyInt(self.max_depth) /\ depth >= self.max_depth.v

\* _build_tree(path, prefix, lines, depth, root): the lines it appends, each with
\* the entry it was appended for.  run.listing[d] is the order in which iterdir
\* yields the children of d, run.denied the directories whose listing raises
\* PermissionError, run.sep the separator of the platform.
RECURSIVE build_tree(_, _, _, _, _, _)
RECURSIVE build_items(_, _, _, _, _, _, _)

\* (variant) PermissionError not recovered where it occurs: the listing is read anyway
build_tree_listing_denied(self, fsys, run, path, prefix, depth) ==
  IF DepthLimitReached(self, depth) THEN << >>
  ELSE LET contents == Filtered(self, fsys, Sorted(fsys, run.listing[path]), RootPath, run.sep)
       IN  build_items(self, fsys, run, contents, 1, prefix, depth)

\* (variant) the continuation of the last sibling drawn as that of the others
build_items_one_continuation(self, fsys, run, contents, i, prefix, depth) ==
  IF i > Len(contents) THEN << >>
  ELSE LET item == contents[i]
           is_last == (i = Len(contents))
           current_prefix == IF is_last THEN CornerConnector ELSE BranchConnector
           line == prefix \o current_prefix \o DisplayName(fsys, item)
       IN  <<[item |-> item, text |-> line]>>
           \o (IF IsDir(fsys, item)
               THEN build_tree(self, fsys, run, item, prefix \o BranchContinuation, depth + 1)
               ELSE << >>)
           \o build_items(self, fsys, run, contents, i + 1, prefix, depth)

build_tree(self, fsys, run, path, prefix, depth) ==
  IF DepthLimitReached(self, depth) THEN << >>
  ELSE IF path \in run.denied THEN << >>
  ELSE LET contents == Filtered(self, fsys, Sorted(fsys, run.listing[path]), RootPath, run.sep)
       IN  build_items(self, fsys, run, contents, 1, prefix, depth)

build_items(self, fsys, run, contents, i, prefix, depth) ==
  IF i > Len(contents) THEN << >>
  ELSE LET item == contents[i]
           is_last == (i = Len(contents))
           current_prefix == IF is_last THEN CornerConnector ELSE BranchConnector
           next_prefix == IF is_last THEN BlankContinuation ELSE BranchContinuation
           line == prefix \o current_prefix \o DisplayName(fsys, item)
       IN  <<[item |-> item, text |-> line]>>
           \o (IF IsDir(fsys, item)
               THEN build_tree(self, fsys, run, item, prefix \o next_prefix, depth + 1)
               ELSE << >>)
           \o build_items(self, fsys, run, contents, i + 1, prefix, depth)

\* the order in which the file system may list each directory: every order
PermSeqs(S) ==
  {s \in [1..Cardinality(S) -> S] : \A i, j \in DOMAIN s : i # j => s[i] # s[j]}

RECURSIVE ListingsOver(_, _)
ListingsOver(fsys, dirs) ==
  IF dirs = {} THEN {<< >>}
  ELSE LET d == CHOOSE x \in dirs : TRUE
       IN  {(d :> s) @@ g : s \in PermSeqs(Children(fsys, d)),
                            g \in ListingsOver(fsys, dirs \ {d})}

Listings(fsys) == ListingsOver(fsys, Directories(fsys))

\* a directory that does not exist
MissingPath == <<N_proj, N_proj>>

\* root_path.exists()
Exists(directory) == directory = RootPath

OutputFileName == <<"o", "u", "t">>

\* generate_tree after the check of the root: the header, _build_tree, the join,
\* the output file and its two confirmation lines
render_tree(self, fsys, run, root_path, output_file) ==
  LET body == build_tree(self, fsys, run, root_path, EmptyStr, 0)
      tree_lines == <<Name(root_path) \o <<"/">>>> \o [i \in DOMAIN body |-> body[i].text]
      tree_output == JoinLines(tree_lines)
  IN  [raised |-> None,
       lines |-> tree_lines,
       items |-> [i \in DOMAIN body |-> body[i].item],
       returned |-> Some(tree_output),
       written |-> IF output_file.some THEN Some(tree_output) ELSE None,
       printed |-> IF output_file.some
                   THEN <<[what |-> "saved", n |-> 0],
                          [what |-> "total_lines", n |-> Len(tree_lines)]>>
                   ELSE << >>]

\* (variant) the root rendered without the check that it exists: a missing
\* directory has nothing to list
generate_tree_unchecked(self, fsys, run, directory, output_file) ==
  IF directory = RootPath THEN render_tree(self, fsys, run, directory, output_file)
  ELSE render_tree(self, << >>, [run EXCEPT !.listing = (directory :> << >>)], directory,
                   output_file)

\* generate_tree(directory, output_file): what it raises, or what it returns,
\* writes and prints
generate_tree(self, fsys, run, directory, output_file) ==
  IF ~Exists(directory)
  THEN [raised |-> Some("ValueError"), lines |-> << >>, items |-> << >>,
        returned |-> None, written |-> None, printed |-> << >>]
  ELSE render_tree(self, fsys, run, directory, output_file)

\* main: the config it builds from the parsed arguments
MainConfig(args) ==
  LET c1 == IF TruthyInt(args.max_depth) THEN [max_depth |-> args.max_depth] ELSE << >>
      c2 == IF args.ext.some THEN [include_extensions |-> args.ext] ELSE << >>
      c3 == IF args.minimal THEN [include_extensions |-> Some(minimal_extensions)] ELSE c2
      c4 == IF args.exclude_dirs.some
            THEN [exclude_dirs |-> DEFAULT_exclude_dirs \o args.exclude_dirs.v] ELSE << >>
      c5 == IF args.exclude_files.some
            THEN [exclude_files |-> DEFAULT_exclude_files \o args.exclude_files.v] ELSE << >>
      c6 == IF ~args.include_images
            THEN [exclude_patterns |-> DEFAULT_exclude_patterns \o image_extensions] ELSE << >>
  IN  c1 @@ c3 @@ c4 @@ c5 @@ c6

(***************************************************************************)
(* The inputs tried.                                                       *)
(***************************************************************************)
N_a == <<"a">>
N_A == <<"A">>
N_Bt == <<"B", ".", "t">>
Ext_t == <<".", "t">>
Pat_a_B == <<"a", "/", "B">>

\* the names of the entries of a generated snapshot
Names == {N_a, N_A, N_Bt}

\* the sets of at most n paths, none deeper than MaxFsDepth, closed under parent
RECURSIVE Trees(_)
Trees(n) ==
  IF n = 0 THEN {{}}
  ELSE LET smaller == Trees(n - 1)
       IN  smaller \cup
           UNION {{t \cup {p \o <<nm>>} : p \in {q \in {<< >>} \cup t : Len(q) < MaxFsDepth},
                                          nm \in Names} : t \in smaller}

\* every way of making the paths of t directories and files
KindsOf(t) ==
  {k \in [t -> {"dir", "file"}] :
     \A p \in t : (\E q \in t : Len(q) = Len(p) + 1 /\ SubSeq(q, 1, Len(p)) = p) => k[p] = "dir"}

\* src/index.ts, node_modules/pkg/index.js, README.md and .env
ScenarioFS ==
  (<<N_src>> :> "dir") @@ (<<N_src, N_index_ts>> :> "file")
  @@ (<<N_node_modules>> :> "dir") @@ (<<N_node_modules, N_pkg>> :> "dir")
  @@ (<<N_node_modules, N_pkg, N_index_js>> :> "file")
  @@ (<<N_README_md>> :> "file") @@ (<<N_env>> :> "file")

\* a/a/A/B.t, a/B.t, A/a and B.t: names that differ by case only, and a
\* directory three levels deep
NestedFS ==
  (<<N_a>> :> "dir") @@ (<<N_a, N_a>> :> "dir") @@ (<<N_a, N_a, N_A>> :> "dir")
  @@ (<<N_a, N_a, N_A, N_Bt>> :> "file") @@ (<<N_a, N_Bt>> :> "file")
  @@ (<<N_A>> :> "dir") @@ (<<N_A, N_a>> :> "file") @@ (<<N_Bt>> :> "file")

Snapshots == {ScenarioFS, NestedFS} \cup UNION {KindsOf(t) : t \in Trees(MaxEntries)}

\* the config dicts handed to TreeGenerator(config)
Configs ==
  {<< >>,
   [exclude_dirs |-> <<N_A>>],
   [exclude_files |-> <<N_a>>, exclude_patterns |-> <<<<"t">>>>],
   [exclude_path_patterns |-> <<Pat_a_B>>],
   [include_extensions |-> Some(<<Ext_t>>)],
   [include_extensions |-> Some(<< >>)],
   [exclude_dirs |-> <<N_A>>, include_extensions |-> Some(<<Ext_t>>)],
   [exclude_path_patterns |-> <<Pat_a_B>>, include_extensions |-> Some(<<Ext_t>>)]}
  \cup {[max_depth |-> Some(d)] : d \in (-1)..MaxDepthOpt}

NoArgs ==
  [max_depth |-> None, ext |-> None, minimal |-> FALSE, exclude_dirs |-> None,
   exclude_files |-> None, include_images |-> FALSE]

\* the command lines handed to main
ArgSets ==
  {NoArgs,
   [NoArgs EXCEPT !.max_depth = Some(0)],
   [NoArgs EXCEPT !.max_depth = Some(1)],
   [NoArgs EXCEPT !.ext = Some(<<Ext_t>>)],
   [NoArgs EXCEPT !.minimal = TRUE],
   [NoArgs EXCEPT !.exclude_dirs = Some(<<N_A>>), !.exclude_files = Some(<<N_a>>),
                  !.include_images = TRUE]}

(***************************************************************************)
(* The state.                                                              *)
(***************************************************************************)
VARIABLES
  fs,          \* the directory snapshot
  pc,          \* "start", "constructed", "returned", "raised", "checked", "exited"
  self,        \* the TreeGenerator, once constructed
  call,        \* the arguments of the call made: directory, output_file, args
  listing,     \* the order in which each directory was listed in the call
  denied,      \* the directory whose listing raised PermissionError, if any
  tree_lines,  \* generate_tree's list of lines
  emitted,     \* the entry each line after the header was appended for
  returned,    \* what generate_tree returned
  out_file,    \* the content of the output file
  console,     \* what was printed, in order
  error,       \* the exception that reached the caller
  decision     \* the result of a direct call of _should_exclude

vars == <<fs, pc, self, call, listing, denied, tree_lines, emitted, returned,
          out_file, console, error, decision>>

Init ==
  /\ fs \in Snapshots
  /\ pc = "start"
  /\ self = None
  /\ call = None
  /\ listing = << >>
  /\ denied = None
  /\ tree_lines = << >>
  /\ emitted = << >>
  /\ returned = None
  /\ out_file = None
  /\ console = << >>
  /\ error = None
  /\ decision = None

\* generator = TreeGenerator(config)
Construct ==
  /\ pc = "start"
  /\ \E config \in Configs : self' = Some(TreeGeneratorInit(config))
  /\ pc' = "constructed"
  /\ UNCHANGED <<fs, call, listing, denied, tree_lines, emitted, returned, out_file,
                 console, error, decision>>

\* the effect of generate_tree on the state, for a generator g and a call c
GenerateTreeEffect(g, c, before, print_tree, endpc) ==
  \E r \in {generate_tree(g, fs, [listing |-> c.listing,
                                  denied |-> IF c.denied.some THEN {c.denied.v} ELSE {},
                                  sep |-> c.sep], c.directory, c.output_file)} :
      /\ listing' = c.listing
      /\ denied' = c.denied
      /\ tree_lines' = r.lines
      /\ emitted' = r.items
      /\ returned' = r.returned
      /\ out_file' = r.written
      /\ error' = r.raised
      /\ console' = IF r.raised.some THEN console \o before
                    ELSE console \o before \o r.printed
                         \o (IF print_tree THEN <<[what |-> "tree", n |-> Len(r.lines)]>>
                             ELSE << >>)
      /\ pc' = IF r.raised.some THEN "raised" ELSE endpc

\* one listing order of every directory
SomeListing(fsys) == CHOOSE ls \in Listings(fsys) : TRUE

\* the calls of generate_tree tried on the snapshot: with every listing order,
\* every directory readable or one of them failing with PermissionError; with
\* an output file; on a platform whose separator is the backslash; and the
\* calls on a directory that does not exist
Calls(fsys) ==
  {[directory |-> RootPath, output_file |-> None, denied |-> dn, sep |-> "/", listing |-> ls] :
     dn \in {None} \cup {Some(d) : d \in Directories(fsys)}, ls \in Listings(fsys)}
  \cup {[directory |-> RootPath, output_file |-> Some(OutputFileName), denied |-> None,
          sep |-> "/", listing |-> SomeListing(fsys)],
         [directory |-> RootPath, output_file |-> None, denied |-> None,
          sep |-> "\\", listing |-> SomeListing(fsys)]}
  \cup {[directory |-> MissingPath, output_file |-> o, denied |-> None, sep |-> "/",
          listing |-> << >>] : o \in {None, Some(OutputFileName)}}

\* generator.generate_tree(directory, output_file)
GenerateTree ==
  /\ pc = "constructed"
  /\ \E c \in Calls(fs) :
       /\ call' = Some([directory |-> c.directory, output_file |-> c.output_file, args |-> None])
       /\ GenerateTreeEffect(self.v, c, << >>, FALSE, "returned")
  /\ UNCHANGED <<fs, self, decision>>

\* the roots and separators _should_exclude is called with
RootArguments ==
  {[root |-> None, sep |-> "/"], [root |-> Some(RootPath), sep |-> "/"],
   [root |-> Some(RootPath), sep |-> "\\"], [root |-> Some(OtherRoot), sep |-> "/"]}

\* generator._should_exclude(path, root) called on an entry of the snapshot
ShouldExclude ==
  /\ pc = "constructed"
  /\ \E q \in DOMAIN fs, a \in RootArguments :
       decision' = Some([path |-> RootPath \o q, root |-> a.root,
                         excluded |-> should_exclude(self.v, fs, RootPath \o q, a.root, a.sep)])
  /\ pc' = "checked"
  /\ UNCHANGED <<fs, self, call, listing, denied, tree_lines, emitted, returned, out_file,
                 console, error>>

\* main(): argparse, the config, the banner, generate_tree, the print of the tree
Main ==
  /\ pc = "start"
  /\ \E args \in ArgSets :
       \E generator \in {TreeGeneratorInit(MainConfig(args))} :
         \E c \in Calls(fs) :
           LET banner == <<[what |-> "generating", n |-> 0]>>
                         \o (IF args.minimal THEN <<[what |-> "mode_minimal", n |-> 0]>>
                             ELSE << >>)
                         \o <<[what |-> "rule", n |-> 50]>>
           IN  /\ self' = Some(generator)
               /\ call' = Some([directory |-> c.directory, output_file |-> c.output_file,
                                args |-> Some(args)])
               /\ GenerateTreeEffect(generator, c, banner, ~c.output_file.some, "exited")
  /\ UNCHANGED <<fs, decision>>

Next == Construct \/ GenerateTree \/ ShouldExclude \/ Main

Spec == Init /\ [][Next]_vars


(***************************************************************************)
(* Properties.                                                             *)
(***************************************************************************)
\* generate_tree has returned (to the caller, or to main, which has printed)
Done == pc \in {"returned", "exited"}

\* an absolute path of the snapshot, relative to the root
Rel(item) == RelativeTo(item, RootPath)

\* levels below the root
Depth(item) == Len(item) - Len(RootPath)

Parent(item) == SubSeq(item, 1, Len(item) - 1)

\* the root-relative path with forward slashes
SlashPath(item) == Join(Rel(item), "/")

EmittedSet == Range(emitted)

\* entries i and j of the output belong to the same sibling group
SameGroup(i, j) == Parent(emitted[i]) = Parent(emitted[j])

\* the line of entry i (the header is line 1)
LineOf(i) == tree_lines[i + 1]

\* a path-substring pattern of the generator occurs in the entry's relative path
PathPatternHits(item) ==
  \E i \in DOMAIN self.v.exclude_path_patterns :
    Contains(self.v.exclude_path_patterns[i], SlashPath(item))

\* the final dot-prefixed suffix of a name: from its last "." on, or empty
FinalDotSuffix(name) ==
  IF \E i \in DOMAIN name : name[i] = "."
  THEN LET i == CHOOSE k \in DOMAIN name :
                  name[k] = "." /\ \A m \in DOMAIN name : name[m] = "." => m <= k
       IN  SubSeq(name, i, Len(name))
  ELSE EmptyStr

\* what the directory-name, file-name, suffix and allow-list rules decide
RemainingRules(item) ==
  IF IsDir(fs, item) THEN Name(item) \in self.v.exclude_dirs
  ELSE \/ Name(item) \in self.v.exclude_files
       \/ \E i \in DOMAIN self.v.exclude_patterns :
            EndsWith(Name(item), self.v.exclude_patterns[i])
       \/ /\ TruthyList(self.v.include_extensions)
          /\ PathSuffix(item) \notin Range(self.v.include_extensions.v)

\* the children of dir were listed in the run: dir is the root or was emitted,
\* its listing did not fail, and the depth limit did not stop the descent
WasListed(dir) ==
  /\ dir = RootPath \/ dir \in EmittedSet
  /\ denied # Some(dir)
  /\ ~DepthLimitReached(self.v, Depth(dir))

Entries == {RootPath \o q : q \in DOMAIN fs}

\* C1: in every sibling group of the output the directories come before the
\* files, and within the directories and within the files the names are in
\* ascending case-insensitive order
OrderingLaw ==
  Done =>
    \A i, j \in DOMAIN emitted :
      (i < j /\ SameGroup(i, j)) =>
        /\ IsDir(fs, emitted[i]) \/ ~IsDir(fs, emitted[j])
        /\ IsDir(fs, emitted[i]) = IsDir(fs, emitted[j])
             => ~StrLess(Lower(Name(emitted[j])), Lower(Name(emitted[i])))

\* C1 witness: a group with two directories of different lower-case names and a
\* file whose lower-case name is smaller than a directory's
OrderingWitness ==
  /\ Done
  /\ \E i, j, k \in DOMAIN emitted :
       /\ i < j /\ j < k /\ SameGroup(i, j) /\ SameGroup(j, k)
       /\ IsDir(fs, emitted[i]) /\ IsDir(fs, emitted[j]) /\ ~IsDir(fs, emitted[k])
       /\ StrLess(Lower(Name(emitted[i])), Lower(Name(emitted[j])))
       /\ StrLess(Lower(Name(emitted[k])), Lower(Name(emitted[j])))
       /\ StrLess(Name(emitted[j]), Name(emitted[i]))

\* the max_depth the caller configured: the --max-depth argument of main, or the
\* max_depth option of the config
ConfiguredMaxDepth == IF call.v.args.some THEN call.v.args.v.max_depth ELSE self.v.max_depth

\* no rule excludes the entry nor any of its ancestors below the root
NothingExcludedAbove(q) ==
  \A k \in 1..Len(q) :
    ~should_exclude(self.v, fs, RootPath \o SubSeq(q, 1, k), Some(RootPath), "/")

\* C2: with max_depth = d no emitted entry is more than d levels below the
\* root; with max_depth unset every entry that is not excluded and has no
\* excluded ancestor is emitted (every directory being readable)
DepthLaw ==
  Done =>
    /\ ConfiguredMaxDepth.some =>
         \A i \in DOMAIN emitted : Depth(emitted[i]) <= ConfiguredMaxDepth.v
    /\ (~ConfiguredMaxDepth.some /\ ~denied.some) =>
         \A q \in DOMAIN fs : NothingExcludedAbove(q) => RootPath \o q \in EmittedSet

\* C3: a directory whose name is in exclude_dirs is not emitted, and nothing
\* that has such a directory among its ancestors is emitted
ExcludedDirsPruned ==
  Done =>
    \A i \in DOMAIN emitted :
      \A k \in 1..Len(Rel(emitted[i])) :
        LET anc == RootPath \o SubSeq(Rel(emitted[i]), 1, k)
        IN  ~(IsDir(fs, anc) /\ Name(anc) \in self.v.exclude_dirs)

\* C3 witness: an allow-list is set, and a directory three levels deep with an
\* excluded name, and with a file of an allowed extension in it, was met in a
\* directory that was listed
ExcludedDirsWitness ==
  /\ Done
  /\ TruthyList(self.v.include_extensions)
  /\ \E d \in Entries :
       /\ IsDir(fs, d) /\ Name(d) \in self.v.exclude_dirs /\ Depth(d) = 3
       /\ WasListed(Parent(d))
       /\ \E c \in Children(fs, d) :
            ~IsDir(fs, c) /\ PathSuffix(c) \in Range(self.v.include_extensions.v)

\* C4: an entry below the root whose relative path (forward slashes) contains a
\* path-substring pattern is excluded, directory or file, whatever the other
\* rules decide; when the entry is not below the given root the decision is
\* that of the other rules; so no such entry is emitted
PathRuleFirst ==
  /\ decision.some =>
       /\ (decision.v.root = Some(RootPath) /\ PathPatternHits(decision.v.path))
            => decision.v.excluded
       /\ decision.v.root = Some(OtherRoot)
            => decision.v.excluded = RemainingRules(decision.v.path)
  /\ Done => \A i \in DOMAIN emitted : ~PathPatternHits(emitted[i])

\* C4 witness: _should_exclude was called on a directory that only the
\* path-substring rule excludes
PathRuleWitness ==
  /\ decision.some
  /\ decision.v.root = Some(RootPath)
  /\ IsDir(fs, decision.v.path)
  /\ PathPatternHits(decision.v.path)
  /\ ~RemainingRules(decision.v.path)
  /\ decision.v.excluded

\* C5: with a non-empty allow-list every emitted file has its final
\* dot-prefixed suffix in the list; a directory met in a listed directory is
\* emitted unless the path-substring or the directory-name rule excludes it;
\* with the allow-list unset or empty a file met in a listed directory is
\* emitted unless the path-substring, file-name or suffix rule excludes it
AllowListLaw ==
  Done =>
    /\ TruthyList(self.v.include_extensions) =>
         \A i \in DOMAIN emitted :
           ~IsDir(fs, emitted[i]) =>
             FinalDotSuffix(Name(emitted[i])) \in Range(self.v.include_extensions.v)
    /\ \A e \in Entries :
         (/\ IsDir(fs, e)
          /\ WasListed(Parent(e))
          /\ ~PathPatternHits(e)
          /\ Name(e) \notin self.v.exclude_dirs) => e \in EmittedSet
    /\ ~TruthyList(self.v.include_extensions) =>
         \A e \in Entries :
           (/\ ~IsDir(fs, e)
            /\ WasListed(Parent(e))
            /\ ~PathPatternHits(e)
            /\ Name(e) \notin self.v.exclude_files
            /\ ~\E i \in DOMAIN self.v.exclude_patterns :
                  EndsWith(Name(e), self.v.exclude_patterns[i])) => e \in EmittedSet

\* C5 witness: under a non-empty allow-list a file two levels deep is emitted,
\* a file that no other rule excludes is left out of a listed directory, and a
\* directory whose suffix is not in the list is emitted
AllowListWitness ==
  /\ Done
  /\ TruthyList(self.v.include_extensions)
  /\ \E i \in DOMAIN emitted : ~IsDir(fs, emitted[i]) /\ Depth(emitted[i]) >= 2
  /\ \E e \in Entries :
       /\ ~IsDir(fs, e) /\ WasListed(Parent(e)) /\ e \notin EmittedSet
       /\ ~PathPatternHits(e)
       /\ Name(e) \notin self.v.exclude_files
       /\ ~\E i \in DOMAIN self.v.exclude_patterns :
             EndsWith(Name(e), self.v.exclude_patterns[i])
  /\ \E i \in DOMAIN emitted :
       /\ IsDir(fs, emitted[i])
       /\ FinalDotSuffix(Name(emitted[i])) \notin Range(self.v.include_extensions.v)

\* the scenario: the snapshot of src/index.ts, node_modules/pkg/index.js,
\* README.md and .env rendered under the default configuration, every directory
\* readable
ScenarioRun ==
  /\ Done
  /\ fs = ScenarioFS
  /\ self.v = TreeGeneratorInit(<< >>)
  /\ ~denied.some

\* C6 as stated: the lines are the header, README.md, src/ and src/index.ts, in
\* that order, and none for node_modules or .env
ScenarioAsStated ==
  ScenarioRun =>
    emitted = <<RootPath \o <<N_README_md>>, RootPath \o <<N_src>>,
                RootPath \o <<N_src, N_index_ts>>>>

\* C6 amended: the lines are the header, src/, src/index.ts and README.md, in
\* that order, and none for node_modules or .env
ScenarioDirsFirst ==
  ScenarioRun =>
    /\ emitted = <<RootPath \o <<N_src>>, RootPath \o <<N_src, N_index_ts>>,
                   RootPath \o <<N_README_md>>>>
    /\ tree_lines =
         <<N_proj \o <<"/">>,
           <<"U+251C", "U+2500", "U+2500", " ">> \o N_src \o <<"/">>,
           <<"U+2502", " ", " ", " ">> \o <<"U+2514", "U+2500", "U+2500", " ">> \o N_index_ts,
           <<"U+2514", "U+2500", "U+2500", " ">> \o N_README_md>>

\* C6 witness: the scenario was rendered, the file system listing README.md and
\* .env before the directories
ScenarioWitness ==
  /\ ScenarioRun
  /\ listing[RootPath][1] = RootPath \o <<N_README_md>>
  /\ listing[RootPath][2] = RootPath \o <<N_env>>

\* the snapshot with nothing below directory d
Emptied(fsys, d) ==
  [q \in {r \in DOMAIN fsys : ~(Len(RootPath \o r) > Len(d) /\ IsRelativeTo(RootPath \o r, d))}
     |-> fsys[q]]

\* C7: when the listing of a directory fails with PermissionError,
\* generate_tree raises nothing, nothing below that directory is emitted, and
\* the lines are those of the same run on the snapshot in which that directory
\* is empty
PermissionRecovered ==
  (Done /\ denied.some) =>
    /\ ~error.some
    /\ returned.some
    /\ \A i \in DOMAIN emitted :
         ~(Depth(emitted[i]) > Depth(denied.v) /\ IsRelativeTo(emitted[i], denied.v))
    /\ tree_lines =
         render_tree(self.v, Emptied(fs, denied.v),
                     [listing |-> [listing EXCEPT ![denied.v] = << >>], denied |-> {},
                      sep |-> "/"],
                     RootPath, None).lines

\* C7 witness: the directory that could not be listed was emitted, has an entry
\* in it that no rule excludes, and is followed by a sibling directory whose
\* child is emitted
PermissionWitness ==
  /\ Done
  /\ denied.some
  /\ \E c \in Children(fs, denied.v) : NothingExcludedAbove(Rel(c))
  /\ \E i, j, k \in DOMAIN emitted :
       /\ i < j /\ j < k
       /\ emitted[i] = denied.v
       /\ SameGroup(i, j)
       /\ Parent(emitted[k]) = emitted[j]

\* C8: when the requested root directory does not exist the error reaches the
\* caller, no line sequence is built or returned, no output file is written and
\* nothing of a tree is printed; and no error is raised once lines exist
MissingRootLaw ==
  /\ (call.some /\ ~Exists(call.v.directory)) =>
       /\ pc = "raised"
       /\ error = Some("ValueError")
       /\ tree_lines = << >> /\ emitted = << >>
       /\ returned = None
       /\ out_file = None
       /\ \A i \in DOMAIN console : console[i].what \in {"generating", "mode_minimal", "rule"}
  /\ error.some => (tree_lines = << >> /\ ~Exists(call.v.directory))

\* C8 witness: main was run on a missing directory with an output file asked for
MissingRootWitness ==
  /\ pc = "raised"
  /\ call.v.args.some
  /\ call.v.output_file.some
  /\ ~Exists(call.v.directory)

\* C9: the lines depend on the snapshot and the configuration only, not on the
\* order in which the file system lists the children of a directory
Determinism ==
  Done =>
    tree_lines =
      render_tree(self.v, fs,
                  [listing |-> SomeListing(fs),
                   denied |-> IF denied.some THEN {denied.v} ELSE {}, sep |-> "/"],
                  RootPath, None).lines

\* entry i is the last emitted of its sibling group
IsLastOfGroup(i) == ~\E j \in DOMAIN emitted : j > i /\ SameGroup(i, j)

\* the place in the output of an emitted entry
IndexOf(item) == CHOOSE i \in DOMAIN emitted : emitted[i] = item

\* one 4-character segment per ancestor below the root, outermost first
RECURSIVE PrefixFor(_, _)
PrefixFor(item, k) ==
  IF k >= Depth(item) THEN EmptyStr
  ELSE LET anc == SubSeq(item, 1, Len(RootPath) + k)
       IN  (IF IsLastOfGroup(IndexOf(anc)) THEN <<" ", " ", " ", " ">>
            ELSE <<"U+2502", " ", " ", " ">>)
           \o PrefixFor(item, k + 1)

\* C10: the last emitted entry of a sibling group carries the corner connector
\* and the others the branch connector; the prefix has one segment per ancestor
\* below the root, the vertical bar for an ancestor that was not last and
\* blanks for one that was; a directory's name ends in "/" and a file's is bare
ConnectorLaw ==
  Done =>
    /\ Len(tree_lines) = Len(emitted) + 1
    /\ \A i \in DOMAIN emitted :
         LineOf(i) =
           PrefixFor(emitted[i], 1)
           \o (IF IsLastOfGroup(i) THEN <<"U+2514", "U+2500", "U+2500", " ">>
               ELSE <<"U+251C", "U+2500", "U+2500", " ">>)
           \o Name(emitted[i])
           \o (IF IsDir(fs, emitted[i]) THEN <<"/">> ELSE EmptyStr)

\* C10 witness: an entry below a directory that is last in its group, itself
\* below a directory that is not last in its group
ConnectorWitness ==
  /\ Done
  /\ \E i, j, k \in DOMAIN emitted :
       /\ emitted[i] = Parent(emitted[j]) /\ emitted[j] = Parent(emitted[k])
       /\ ~IsLastOfGroup(i) /\ IsLastOfGroup(j)

====
